---- MODULE Spec2Model ----
(***************************************************************************)
(* Model of tonic's TLS glue, src/tonic/src/transport/service/tls.rs:      *)
(* the PEM key / certificate loaders of mod rustls_keys, the construction  *)
(* of TlsConnector and TlsAcceptor, and the connect / accept handshakes    *)
(* that run concurrently against the shared, reference-counted             *)
(* configuration.                                                          *)
(*                                                                         *)
(* The rustls, rustls_pemfile, rustls_native_certs and webpki_roots crates *)
(* are external; each call into them is modelled at its call site by what  *)
(* the call returns to tls.rs.                                             *)
(***************************************************************************)
EXTENDS Naturals, Integers, Sequences, FiniteSets, Bags, TLC

VARIABLES
    features,   \* cargo features the crate is built with (cfg at lines 44, 47)
    connector,  \* the TlsConnector, None before TlsConnector::new succeeded
    connNew,    \* the last TlsConnector::new call: its arguments and its Result
    acceptor,   \* the TlsAcceptor, None before TlsAcceptor::new succeeded
    accNew,     \* the last TlsAcceptor::new call: its arguments and its Result
    tasks,      \* bag of connect / accept futures, one record per call
    keyIn,      \* the PEM under the cursor given to load_rustls_private_key
    keyOut,     \* its Result, None before the call
    pemIn,      \* the PEM under the cursor given to add_certs_from_pem
    roots,      \* the RootCertStore given to add_certs_from_pem
    pemOut      \* its Result, None before the call

vars == <<features, connector, connNew, acceptor, accNew, tasks,
          keyIn, keyOut, pemIn, roots, pemOut>>

----------------------------------------------------------------------------
(* Bounds *)

\* longest PEM input (in sections) given to the loaders
MaxBlocks == 3
\* most connect / accept futures alive at once
MaxCalls == 2

----------------------------------------------------------------------------
(* Values *)

\* Option<T>
None == [tag |-> "None"]
Some(v) == [tag |-> "Some", v |-> v]
IsSome(o) == o.tag = "Some"

ALPN_H2 == "h2"

H2NotNegotiated == "TlsError::H2NotNegotiated"
CertificateParseError == "TlsError::CertificateParseError"
PrivateKeyParseError == "TlsError::PrivateKeyParseError"

\* errors passed through from the libraries
IoError == "io::Error"
NativeCertsError == "io::Error (load_native_certs)"
RustlsError == "rustls::Error"
InvalidDnsNameError == "InvalidDnsNameError"
VerifierBuilderError == "VerifierBuilderError"

Ok(v) == [ok |-> TRUE, value |-> v]
Err(e) == [ok |-> FALSE, err |-> e]

----------------------------------------------------------------------------
(* PEM input: a sequence of sections.  A section has the label of its      *)
(* BEGIN line and a body.  Body Corrupt is a body the PEM reader cannot    *)
(* decode; body Invalid decodes to DER that is not a valid object of its   *)
(* kind; any other body names a valid DER object.                          *)

CERT == "CERTIFICATE"
RSA_KEY == "RSA PRIVATE KEY"
PKCS8_KEY == "PRIVATE KEY"
EC_KEY == "EC PRIVATE KEY"
CRL == "X509 CRL"
EC_PARAMS == "EC PARAMETERS"

Corrupt == "corrupt base64"
Invalid == "invalid DER"

KeyLabels == {RSA_KEY, PKCS8_KEY, EC_KEY}

\* labels rustls_pemfile turns into an Item; sections of any other label
\* are passed over by the reader itself
ItemLabels == KeyLabels \cup {CERT, CRL}

Sec(l, b) == [label |-> l, body |-> b]

Sections ==
    {Sec(CERT, b) : b \in {Corrupt, Invalid, "A", "B"}}
    \cup {Sec(l, b) : l \in KeyLabels, b \in {Corrupt, "K1", "K2"}}
    \cup {Sec(CRL, "L"), Sec(EC_PARAMS, "P")}

SeqsUpTo(S, n) == UNION {[1..k -> S] : k \in 0..n}

Pems == SeqsUpTo(Sections, MaxBlocks)

----------------------------------------------------------------------------
(* rustls_pemfile::read_one on a cursor at section pos + 1: passes over    *)
(* sections whose label it does not know, fails on a section it cannot     *)
(* decode, returns the next item and leaves the cursor behind it.          *)

RECURSIVE read_one(_, _)
read_one(pem, pos) ==
    IF pos >= Len(pem) THEN [res |-> "Ok", item |-> None, pos |-> pos]
    ELSE LET s == pem[pos + 1] IN
         IF s.label \notin ItemLabels THEN read_one(pem, pos + 1)
         ELSE IF s.body = Corrupt
              THEN [res |-> "Err", item |-> None, pos |-> pos + 1]
              ELSE [res |-> "Ok", item |-> Some(s), pos |-> pos + 1]

\* the match of lines 195-200: the PrivateKeyDer variant of an item
Pkcs1 == "PrivateKeyDer::Pkcs1"
Pkcs8 == "PrivateKeyDer::Pkcs8"
Sec1 == "PrivateKeyDer::Sec1"

KeyOfItemSwapped(item) ==
    CASE item.label = RSA_KEY -> Some([enc |-> Pkcs8, der |-> item.body])
      [] item.label = PKCS8_KEY -> Some([enc |-> Pkcs1, der |-> item.body])
      [] item.label = EC_KEY -> Some([enc |-> Sec1, der |-> item.body])
      [] OTHER -> None

\* None is the arm "_ => continue"
KeyOfItem(item) ==
    CASE item.label = RSA_KEY -> Some([enc |-> Pkcs1, der |-> item.body])
      [] item.label = PKCS8_KEY -> Some([enc |-> Pkcs8, der |-> item.body])
      [] item.label = EC_KEY -> Some([enc |-> Sec1, der |-> item.body])
      [] OTHER -> None

\* load_rustls_private_key with a scan that passes over a section the
\* reader fails on instead of ending at it
RECURSIVE load_rustls_private_key_skipping(_, _)
load_rustls_private_key_skipping(pem, pos) ==
    LET r == read_one(pem, pos) IN
    IF r.res = "Ok" /\ IsSome(r.item)
    THEN IF IsSome(KeyOfItem(r.item.v))
         THEN [ok |-> TRUE, key |-> KeyOfItem(r.item.v).v, pos |-> r.pos]
         ELSE load_rustls_private_key_skipping(pem, r.pos)
    ELSE IF r.res = "Err"
         THEN load_rustls_private_key_skipping(pem, r.pos)
         ELSE [ok |-> FALSE, err |-> PrivateKeyParseError, pos |-> r.pos]

load_rustls_private_key_lenient(pem) == load_rustls_private_key_skipping(pem, 0)

\* the loop of lines 194-201 with the cursor at pos; the while-let ends the
\* scan as soon as read_one returns anything but Ok(Some(item))
RECURSIVE load_rustls_private_key_from(_, _)
load_rustls_private_key_from(pem, pos) ==
    LET r == read_one(pem, pos) IN
    IF r.res = "Ok" /\ IsSome(r.item)
    THEN IF IsSome(KeyOfItem(r.item.v))
         THEN [ok |-> TRUE, key |-> KeyOfItem(r.item.v).v, pos |-> r.pos]
         ELSE load_rustls_private_key_from(pem, r.pos)
    ELSE [ok |-> FALSE, err |-> PrivateKeyParseError, pos |-> r.pos]

\* pos of the result: how many sections the cursor has passed on return
load_rustls_private_key(pem) == load_rustls_private_key_from(pem, 0)

----------------------------------------------------------------------------
(* rustls_pemfile::certs collected into a Result (lines 212-214, 234-236): *)
(* the bodies of the CERTIFICATE items in order, or the reader's error.    *)

RECURSIVE certs_from(_, _, _)
certs_from(pem, pos, acc) ==
    LET r == read_one(pem, pos) IN
    IF r.res = "Err" THEN Err(IoError)
    ELSE IF ~IsSome(r.item) THEN Ok(acc)
    ELSE IF r.item.v.label = CERT
         THEN certs_from(pem, r.pos, Append(acc, r.item.v.body))
         ELSE certs_from(pem, r.pos, acc)

certs(pem) == certs_from(pem, 0, <<>>)

\* RootCertStore::add_parsable_certificates (line 238): every certificate
\* that parses as a trust anchor is pushed, the others are counted
add_parsable_certificates(store, ders) ==
    LET valid == SelectSeq(ders, LAMBDA d : d # Invalid) IN
    [roots |-> store \o valid,
     added |-> Len(valid),
     ignored |-> Len(ders) - Len(valid)]

\* add_certs_from_pem undoing its additions when it fails
add_certs_from_pem_rollback(pem, store) ==
    LET c == certs(pem) IN
    IF ~c.ok THEN [ok |-> FALSE, err |-> c.err, roots |-> store]
    ELSE LET a == add_parsable_certificates(store, c.value) IN
         IF a.ignored = 0
         THEN [ok |-> TRUE, roots |-> a.roots]
         ELSE [ok |-> FALSE, err |-> CertificateParseError, roots |-> store]

\* add_certs_from_pem: its Result and the store it leaves
add_certs_from_pem(pem, store) ==
    LET c == certs(pem) IN
    IF ~c.ok THEN [ok |-> FALSE, err |-> c.err, roots |-> store]
    ELSE LET a == add_parsable_certificates(store, c.value) IN
         IF a.ignored = 0
         THEN [ok |-> TRUE, roots |-> a.roots]
         ELSE [ok |-> FALSE, err |-> CertificateParseError, roots |-> a.roots]

\* load_identity (lines 207-228): the chain first, then the key
load_identity(identity) ==
    LET chain == certs(identity.cert)
        key == load_rustls_private_key(identity.key)
    IN IF ~chain.ok THEN Err(chain.err)
       ELSE IF ~key.ok THEN Err(key.err)
       ELSE Ok([cert |-> chain.value, key |-> key.key])

----------------------------------------------------------------------------
(* Construction of the client configuration, TlsConnector::new             *)

TlsRoots == "tls-roots"
TlsWebpkiRoots == "tls-webpki-roots"
FeatureSets == SUBSET {TlsRoots, TlsWebpkiRoots}

\* webpki_roots::TLS_SERVER_ROOTS (line 48)
WebpkiRoots == <<"W">>

\* what rustls_native_certs::load_native_certs() may return (line 45)
NativeResults == {Err(NativeCertsError), Ok(<<"N", Invalid>>)}

\* with_client_auth_cert (line 58) and with_single_cert (line 144) reject a
\* key whose DER no signing scheme accepts
SigningKeyOk(key) == key.der # Invalid

\* ServerName::try_from (line 63)
ValidServerNames == {"example.com", "10.0.0.1"}
IsServerName(domain) == domain \in ValidServerNames

\* a failed constructor: the error and the line of the `?` that returned it
Fail(e, line) == [ok |-> FALSE, err |-> e, at |-> line]

\* the store of lines 42-48, before ca_cert is looked at
PlatformRoots(feat, native) ==
    LET r1 == IF TlsRoots \in feat
              THEN add_parsable_certificates(<<>>, native.value).roots
              ELSE <<>>
    IN IF TlsWebpkiRoots \in feat THEN r1 \o WebpkiRoots ELSE r1

\* TlsConnector::new validating the domain before anything else
TlsConnector_new_domain_first(feat, native, ca_cert, identity, domain, assume_http2) ==
    LET ca == add_certs_from_pem(ca_cert.v, PlatformRoots(feat, native))
        roots_ == IF IsSome(ca_cert) THEN ca.roots ELSE PlatformRoots(feat, native)
        id == load_identity(identity.v)
    IN IF ~IsServerName(domain) THEN Fail(InvalidDnsNameError, 63)
       ELSE IF TlsRoots \in feat /\ ~native.ok THEN Fail(native.err, 45)
       ELSE IF IsSome(ca_cert) /\ ~ca.ok THEN Fail(ca.err, 51)
       ELSE IF IsSome(identity) /\ ~id.ok THEN Fail(id.err, 57)
       ELSE IF IsSome(identity) /\ ~SigningKeyOk(id.value.key)
            THEN Fail(RustlsError, 58)
       ELSE Ok([config |-> [roots |-> roots_,
                            client_auth |-> IF IsSome(identity)
                                            THEN Some(id.value) ELSE None,
                            alpn_protocols |-> <<ALPN_H2>>],
                domain |-> domain,
                assume_http2 |-> assume_http2])

\* TlsConnector::new (lines 35-71); feat and native stand for the build and
\* for the platform's answer to load_native_certs
TlsConnector_new(feat, native, ca_cert, identity, domain, assume_http2) ==
    LET ca == add_certs_from_pem(ca_cert.v, PlatformRoots(feat, native))
        roots_ == IF IsSome(ca_cert) THEN ca.roots ELSE PlatformRoots(feat, native)
        id == load_identity(identity.v)
    IN IF TlsRoots \in feat /\ ~native.ok THEN Fail(native.err, 45)
       ELSE IF IsSome(ca_cert) /\ ~ca.ok THEN Fail(ca.err, 51)
       ELSE IF IsSome(identity) /\ ~id.ok THEN Fail(id.err, 57)
       ELSE IF IsSome(identity) /\ ~SigningKeyOk(id.value.key)
            THEN Fail(RustlsError, 58)
       ELSE IF ~IsServerName(domain) THEN Fail(InvalidDnsNameError, 63)
       ELSE Ok([config |-> [roots |-> roots_,
                            client_auth |-> IF IsSome(identity)
                                            THEN Some(id.value) ELSE None,
                            alpn_protocols |-> <<ALPN_H2>>],
                domain |-> domain,
                assume_http2 |-> assume_http2])

----------------------------------------------------------------------------
(* Construction of the server configuration, TlsAcceptor::new              *)

NoClientAuth == "with_no_client_auth"
WebPkiClientVerifier == "WebPkiClientVerifier"

\* WebPkiClientVerifier::builder(roots) [.allow_unauthenticated()] .build():
\* the builder refuses a store without anchors
BuildVerifier(store, allow_unauthenticated, line) ==
    IF Len(store) = 0 THEN Fail(VerifierBuilderError, line)
    ELSE Ok([kind |-> WebPkiClientVerifier,
             roots |-> store,
             allow_unauthenticated |-> allow_unauthenticated])

\* the match of lines 118-141 with allow_unauthenticated() on the other arm
client_verifier_arms_swapped(client_ca_root, client_auth_optional) ==
    IF ~IsSome(client_ca_root)
    THEN Ok([kind |-> NoClientAuth, roots |-> <<>>, allow_unauthenticated |-> TRUE])
    ELSE LET a == add_certs_from_pem(client_ca_root.v, <<>>) IN
         IF client_auth_optional
         THEN IF ~a.ok THEN Fail(a.err, 123) ELSE BuildVerifier(a.roots, FALSE, 127)
         ELSE IF ~a.ok THEN Fail(a.err, 134) ELSE BuildVerifier(a.roots, TRUE, 137)

\* the match of lines 118-141 building on the bundled public roots
client_verifier_with_webpki_roots(client_ca_root, client_auth_optional) ==
    IF ~IsSome(client_ca_root)
    THEN Ok([kind |-> NoClientAuth, roots |-> <<>>, allow_unauthenticated |-> TRUE])
    ELSE LET a == add_certs_from_pem(client_ca_root.v, WebpkiRoots) IN
         IF client_auth_optional
         THEN IF ~a.ok THEN Fail(a.err, 123) ELSE BuildVerifier(a.roots, TRUE, 127)
         ELSE IF ~a.ok THEN Fail(a.err, 134) ELSE BuildVerifier(a.roots, FALSE, 137)

\* the match of lines 118-141: the client-certificate verifier of the config
client_verifier(client_ca_root, client_auth_optional) ==
    IF ~IsSome(client_ca_root)
    THEN Ok([kind |-> NoClientAuth, roots |-> <<>>, allow_unauthenticated |-> TRUE])
    ELSE LET a == add_certs_from_pem(client_ca_root.v, <<>>) IN
         IF client_auth_optional
         THEN IF ~a.ok THEN Fail(a.err, 123) ELSE BuildVerifier(a.roots, TRUE, 127)
         ELSE IF ~a.ok THEN Fail(a.err, 134) ELSE BuildVerifier(a.roots, FALSE, 137)

\* TlsAcceptor::new (lines 111-150)
TlsAcceptor_new(identity, client_ca_root, client_auth_optional) ==
    LET v == client_verifier(client_ca_root, client_auth_optional)
        id == load_identity(identity)
    IN IF ~v.ok THEN v
       ELSE IF ~id.ok THEN Fail(id.err, 143)
       ELSE IF ~SigningKeyOk(id.value.key) THEN Fail(RustlsError, 144)
       ELSE Ok([inner |-> [verifier |-> v.value,
                           cert |-> id.value.cert,
                           key |-> id.value.key,
                           alpn_protocols |-> <<ALPN_H2>>]])

----------------------------------------------------------------------------
(* The client handshake, TlsConnector::connect                             *)

HandshakeError == "rustls::Error (handshake)"

\* a server as the handshake sees it: the CA its certificate chains to and
\* the protocol the session reports as negotiated
ServerPeers ==
    [issuer : {"A", "X"}, alpn : {None, Some(ALPN_H2), Some("http/1.1")}]

InRoots(store, anchor) == \E i \in 1..Len(store) : store[i] = anchor

\* RustlsConnector::from(config).connect(domain, io).await (lines 77-79):
\* the session, or the handshake error of a server the store does not
\* verify.  What session.alpn_protocol() reports (line 88) is the peer's to
\* decide: the match below is written for every Option<&[u8]>.
RustlsConnect(config, domain, peer) ==
    IF InRoots(config.roots, peer.issuer)
    THEN Ok([alpn_protocol |-> peer.alpn])
    ELSE Err(HandshakeError)

\* the match of lines 88-92 without the assume_http2 arm
alpn_accepted_strict(alpn_protocol, assume_http2) ==
    IsSome(alpn_protocol) /\ alpn_protocol.v = "h2"

\* the match of lines 88-92: TRUE for the arms that yield (), FALSE for the
\* arm that returns H2NotNegotiated
alpn_accepted(alpn_protocol, assume_http2) ==
    \/ IsSome(alpn_protocol) /\ alpn_protocol.v = "h2"
    \/ assume_http2

\* connect turning assume_http2 on in the shared connector once a handshake
\* failed
TlsConnector_connect_sticky(self, peer) ==
    LET io == RustlsConnect(self.config, self.domain, peer) IN
    IF ~io.ok
    THEN [self |-> [self EXCEPT !.assume_http2 = TRUE], hs |-> io, result |-> Err(io.err)]
    ELSE IF alpn_accepted(io.value.alpn_protocol, self.assume_http2)
         THEN [self |-> self, hs |-> io, result |-> Ok("BoxedIo")]
         ELSE [self |-> [self EXCEPT !.assume_http2 = TRUE], hs |-> io,
               result |-> Err(H2NotNegotiated)]

\* TlsConnector::connect (lines 73-96) from the point the handshake future
\* resolves: the connector it leaves (&self), what the handshake returned
\* and the Result of the call
TlsConnector_connect(self, peer) ==
    LET io == RustlsConnect(self.config, self.domain, peer) IN
    IF ~io.ok
    THEN [self |-> self, hs |-> io, result |-> Err(io.err)]
    ELSE IF alpn_accepted(io.value.alpn_protocol, self.assume_http2)
         THEN [self |-> self, hs |-> io, result |-> Ok("BoxedIo")]
         ELSE [self |-> self, hs |-> io, result |-> Err(H2NotNegotiated)]

----------------------------------------------------------------------------
(* The server handshake, TlsAcceptor::accept                               *)

NoApplicationProtocol == "rustls::Error (no application protocol)"
NoCertificatesPresented == "rustls::Error (no certificates presented)"
InvalidCertificate == "rustls::Error (invalid certificate)"

\* a client as the handshake sees it: the CA of the certificate it presents,
\* if it presents one, and the protocols it offers
ClientPeers ==
    [cert : {None, Some("A"), Some("X")},
     offers : {{}, {ALPN_H2}, {"http/1.1"}}]

Protocols(config) == {config.alpn_protocols[i] : i \in 1..Len(config.alpn_protocols)}

\* RustlsAcceptor::from(inner).accept(io).await (lines 156-157): rustls ends
\* the handshake when the client offers protocols and none is the server's,
\* and lets the configured verifier decide on the client certificate
RustlsAccept(inner, peer) ==
    LET v == inner.verifier IN
    IF peer.offers # {} /\ peer.offers \cap Protocols(inner) = {}
    THEN Err(NoApplicationProtocol)
    ELSE IF v.kind = WebPkiClientVerifier /\ ~IsSome(peer.cert)
              /\ ~v.allow_unauthenticated
    THEN Err(NoCertificatesPresented)
    ELSE IF v.kind = WebPkiClientVerifier /\ IsSome(peer.cert)
              /\ ~InRoots(v.roots, peer.cert.v)
    THEN Err(InvalidCertificate)
    ELSE Ok([alpn_protocol |-> IF ALPN_H2 \in peer.offers
                               THEN Some(ALPN_H2) ELSE None,
             peer_certs |-> IF v.kind = WebPkiClientVerifier
                            THEN peer.cert ELSE None])

\* accept checking the negotiated protocol the way connect does
TlsAcceptor_accept_checked(self, peer) ==
    LET io == RustlsAccept(self.inner, peer) IN
    IF ~io.ok THEN [self |-> self, hs |-> io, result |-> Err(io.err)]
    ELSE IF io.value.alpn_protocol = Some(ALPN_H2)
         THEN [self |-> self, hs |-> io, result |-> Ok(io.value)]
         ELSE [self |-> self, hs |-> io, result |-> Err(H2NotNegotiated)]

\* TlsAcceptor::accept (lines 152-158) from the point the handshake future
\* resolves: map_err(Into::into) keeps the stream and the error as they are
TlsAcceptor_accept(self, peer) ==
    LET io == RustlsAccept(self.inner, peer) IN
    IF ~io.ok THEN [self |-> self, hs |-> io, result |-> Err(io.err)]
    ELSE [self |-> self, hs |-> io, result |-> Ok(io.value)]

----------------------------------------------------------------------------
(* Actions on the connector, the acceptor and their handshakes             *)

Put(bag, t) == bag (+) SetToBag({t})
Take(bag, t) == bag (-) SetToBag({t})

\* TlsConnector::new is called once, at channel setup
ConnectorNewOn(CaCerts, Identities, Domains, Natives) ==
    /\ connNew = None
    /\ \E ca \in CaCerts, id \in Identities, d \in Domains,
          a \in BOOLEAN, nat \in Natives :
          LET r == TlsConnector_new(features, nat, ca, id, d, a) IN
          /\ connNew' = Some([ca_cert |-> ca, identity |-> id, domain |-> d,
                              assume_http2 |-> a, native |-> nat, result |-> r])
          /\ connector' = IF r.ok THEN Some(r.value) ELSE None
    /\ UNCHANGED <<features, acceptor, accNew, tasks,
                   keyIn, keyOut, pemIn, roots, pemOut>>

\* TlsAcceptor::new is called once, at server setup
AcceptorNewOn(Identities, CaRoots) ==
    /\ accNew = None
    /\ \E id \in Identities, ca \in CaRoots, opt \in BOOLEAN :
          LET r == TlsAcceptor_new(id, ca, opt) IN
          /\ accNew' = Some([identity |-> id, client_ca_root |-> ca,
                             client_auth_optional |-> opt, result |-> r])
          /\ acceptor' = IF r.ok THEN Some(r.value) ELSE None
    /\ UNCHANGED <<features, connector, connNew, tasks,
                   keyIn, keyOut, pemIn, roots, pemOut>>

\* connect is called on a fresh stream: the future suspends in the handshake
ConnectCall ==
    /\ IsSome(connector)
    /\ BagCardinality(tasks) < MaxCalls
    /\ \E p \in ServerPeers :
          tasks' = Put(tasks, [side |-> "connect", pc |-> "handshake", peer |-> p])
    /\ UNCHANGED <<features, connector, connNew, acceptor, accNew,
                   keyIn, keyOut, pemIn, roots, pemOut>>

\* the handshake of one connect resolves and the call runs to its return
ConnectReturn ==
    /\ IsSome(connector)
    /\ \E t \in BagToSet(tasks) :
          /\ t.side = "connect" /\ t.pc = "handshake"
          /\ LET r == TlsConnector_connect(connector.v, t.peer) IN
             /\ connector' = Some(r.self)
             /\ tasks' = Put(Take(tasks, t),
                             [side |-> "connect", pc |-> "done", peer |-> t.peer,
                              hs |-> r.hs, result |-> r.result])
    /\ UNCHANGED <<features, connNew, acceptor, accNew,
                   keyIn, keyOut, pemIn, roots, pemOut>>

AcceptCall ==
    /\ IsSome(acceptor)
    /\ BagCardinality(tasks) < MaxCalls
    /\ \E p \in ClientPeers :
          tasks' = Put(tasks, [side |-> "accept", pc |-> "handshake", peer |-> p])
    /\ UNCHANGED <<features, connector, connNew, acceptor, accNew,
                   keyIn, keyOut, pemIn, roots, pemOut>>

AcceptReturn ==
    /\ IsSome(acceptor)
    /\ \E t \in BagToSet(tasks) :
          /\ t.side = "accept" /\ t.pc = "handshake"
          /\ LET r == TlsAcceptor_accept(acceptor.v, t.peer) IN
             /\ acceptor' = Some(r.self)
             /\ tasks' = Put(Take(tasks, t),
                             [side |-> "accept", pc |-> "done", peer |-> t.peer,
                              hs |-> r.hs, result |-> r.result])
    /\ UNCHANGED <<features, connector, connNew, accNew,
                   keyIn, keyOut, pemIn, roots, pemOut>>

\* the caller drops a future that is still in its handshake
DropFuture ==
    /\ \E t \in BagToSet(tasks) :
          /\ t.pc = "handshake"
          /\ tasks' = Take(tasks, t)
    /\ UNCHANGED <<features, connector, connNew, acceptor, accNew,
                   keyIn, keyOut, pemIn, roots, pemOut>>

\* the caller is done with the Result of a call (stream closed, error logged)
DropResult ==
    /\ \E t \in BagToSet(tasks) :
          /\ t.pc = "done"
          /\ tasks' = Take(tasks, t)
    /\ UNCHANGED <<features, connector, connNew, acceptor, accNew,
                   keyIn, keyOut, pemIn, roots, pemOut>>

----------------------------------------------------------------------------
(* Inputs of the constructors *)

GoodIdentity == [cert |-> <<Sec(CERT, "A")>>, key |-> <<Sec(PKCS8_KEY, "K1")>>]

\* certificate PEMs given as ca_cert / client_ca_root
CaPems ==
    { <<Sec(CERT, "A")>>,
      <<Sec(CERT, "A"), Sec(CERT, "B")>>,
      <<Sec(CERT, Invalid)>>,
      <<Sec(CERT, "A"), Sec(CERT, Corrupt)>>,
      <<Sec(PKCS8_KEY, "K1")>> }

IdentityInputs ==
    { GoodIdentity,
      [cert |-> <<Sec(CERT, "A"), Sec(CERT, "B")>>,
       key |-> <<Sec(EC_PARAMS, "P"), Sec(EC_KEY, "K2")>>],
      [cert |-> <<Sec(CERT, Corrupt)>>, key |-> <<Sec(PKCS8_KEY, "K1")>>],
      [cert |-> <<Sec(CERT, "A")>>, key |-> <<Sec(CERT, "A")>>],
      [cert |-> <<Sec(CERT, "A")>>, key |-> <<Sec(RSA_KEY, Invalid)>>] }

DomainInputs == {"example.com", "10.0.0.1", "not a name"}

OptionOf(S) == {None} \cup {Some(x) : x \in S}

----------------------------------------------------------------------------
(* Specification of the two constructors on all of these inputs            *)

InitLoaders ==
    /\ keyIn = <<>>
    /\ keyOut = None
    /\ pemIn = <<>>
    /\ roots = <<>>
    /\ pemOut = None

InitCfg ==
    /\ features \in FeatureSets
    /\ connector = None
    /\ connNew = None
    /\ acceptor = None
    /\ accNew = None
    /\ tasks = EmptyBag
    /\ InitLoaders

CaCertOptions == OptionOf(CaPems)
IdentityOptions == OptionOf(IdentityInputs)

ConnectorNewAny ==
    ConnectorNewOn(CaCertOptions, IdentityOptions, DomainInputs, NativeResults)

AcceptorNewAny == AcceptorNewOn(IdentityInputs, CaCertOptions)

NextCfg == ConnectorNewAny \/ AcceptorNewAny

SpecCfg == InitCfg /\ [][NextCfg]_vars

----------------------------------------------------------------------------
(* Specification of the handshakes: a connector and an acceptor are built  *)
(* and serve concurrent connect and accept calls                           *)

Init == InitCfg

\* the configurations the handshakes run against: no CA, the CA "A", and a
\* CA certificate that does not parse (no connector / acceptor results)
HandshakeCaOptions ==
    {None, Some(<<Sec(CERT, "A")>>), Some(<<Sec(CERT, Invalid)>>)}
HandshakeIdentityOptions == {None}
HandshakeDomains == {"example.com"}
HandshakeNatives == {Ok(<<"N", Invalid>>)}
HandshakeIdentities == {GoodIdentity}

ConnectorNew ==
    ConnectorNewOn(HandshakeCaOptions, HandshakeIdentityOptions,
                   HandshakeDomains, HandshakeNatives)

AcceptorNew == AcceptorNewOn(HandshakeIdentities, HandshakeCaOptions)

Next ==
    \/ ConnectorNew
    \/ AcceptorNew
    \/ ConnectCall
    \/ ConnectReturn
    \/ AcceptCall
    \/ AcceptReturn
    \/ DropFuture
    \/ DropResult

Spec == Init /\ [][Next]_vars

----------------------------------------------------------------------------
(* Specification of the key loader: the input is any PEM within the bound *)

InitRest ==
    /\ features = {}
    /\ connector = None
    /\ connNew = None
    /\ acceptor = None
    /\ accNew = None
    /\ tasks = EmptyBag

InitKey ==
    /\ InitRest
    /\ keyIn \in Pems
    /\ keyOut = None
    /\ pemIn = <<>>
    /\ roots = <<>>
    /\ pemOut = None

LoadPrivateKey ==
    /\ keyOut = None
    /\ keyOut' = Some(load_rustls_private_key(keyIn))
    /\ UNCHANGED <<features, connector, connNew, acceptor, accNew, tasks,
                   keyIn, pemIn, roots, pemOut>>

NextKey == LoadPrivateKey

SpecKey == InitKey /\ [][NextKey]_vars

----------------------------------------------------------------------------
(* Specification of the trust-store builder: any PEM within the bound is   *)
(* added to a store that is empty or already holds an anchor               *)

StoresBefore == {<<>>, <<"W">>}

InitPem ==
    /\ InitRest
    /\ keyIn = <<>>
    /\ keyOut = None
    /\ pemIn \in Pems
    /\ roots \in StoresBefore
    /\ pemOut = None

AddCertsFromPem ==
    /\ pemOut = None
    /\ LET r == add_certs_from_pem(pemIn, roots) IN
       /\ roots' = r.roots
       /\ pemOut' = Some([ok |-> r.ok,
                          err |-> IF r.ok THEN "" ELSE r.err,
                          before |-> roots])
    /\ UNCHANGED <<features, connector, connNew, acceptor, accNew, tasks,
                   keyIn, keyOut, pemIn>>

NextPem == AddCertsFromPem

SpecPem == InitPem /\ [][NextPem]_vars

----------------------------------------------------------------------------
(* Properties of the loaders *)

Min(S) == CHOOSE x \in S : \A y \in S : x <= y

KeyIdx(pem) == {i \in 1..Len(pem) : pem[i].label \in KeyLabels}

\* sections the reader fails on
UnreadableIdx(pem) ==
    {i \in 1..Len(pem) : pem[i].label \in ItemLabels /\ pem[i].body = Corrupt}

WellFormed(pem) == \A i \in 1..Len(pem) : pem[i].body # Corrupt

EncodingOf(label) ==
    CASE label = RSA_KEY -> Pkcs1
      [] label = PKCS8_KEY -> Pkcs8
      [] label = EC_KEY -> Sec1

\* C5: on a PEM of well-formed sections load_rustls_private_key returns the
\* first section, in input order, that is a PKCS1, PKCS8 or SEC1 key, tagged
\* with the encoding of that section; the sections before it are passed
\* without error, the cursor stops right behind it (no later section is
\* read), and the call fails with PrivateKeyParseError exactly when the PEM
\* has no section of the three kinds.
C5_FirstKeyWins ==
    (IsSome(keyOut) /\ WellFormed(keyIn)) =>
        IF KeyIdx(keyIn) = {}
        THEN ~keyOut.v.ok /\ keyOut.v.err = PrivateKeyParseError
        ELSE LET f == Min(KeyIdx(keyIn)) IN
             /\ keyOut.v.ok
             /\ keyOut.v.key = [enc |-> EncodingOf(keyIn[f].label),
                                der |-> keyIn[f].body]
             /\ keyOut.v.pos = f

\* a certificate is passed over, the key behind it is returned and a key of
\* another encoding behind that one is left unread
C5_Witness ==
    /\ IsSome(keyOut) /\ WellFormed(keyIn) /\ Len(keyIn) = 3
    /\ keyIn[1].label = CERT
    /\ keyIn[2].label = EC_KEY
    /\ keyIn[3].label = PKCS8_KEY
    /\ keyOut.v.ok /\ keyOut.v.key.enc = Sec1 /\ keyOut.v.pos = 2

\* C10: the scan of load_rustls_private_key ends at the first section the
\* PEM reader fails to read: when such a section comes before every key
\* section the call fails, also when a key follows it, and every failure of
\* the function is PrivateKeyParseError (the reader's error is not surfaced).
C10_ScanEndsAtReadError ==
    IsSome(keyOut) =>
        /\ ~keyOut.v.ok => keyOut.v.err = PrivateKeyParseError
        /\ \A i \in UnreadableIdx(keyIn) :
               (\A k \in KeyIdx(keyIn) : i < k) =>
                   /\ ~keyOut.v.ok
                   /\ keyOut.v.err = PrivateKeyParseError
                   /\ keyOut.v.pos = Min(UnreadableIdx(keyIn))

\* an unreadable section in front of a valid key: the call has failed
C10_Witness ==
    /\ IsSome(keyOut) /\ Len(keyIn) = 2
    /\ keyIn[1] = Sec(CERT, Corrupt)
    /\ keyIn[2] = Sec(PKCS8_KEY, "K1")
    /\ ~keyOut.v.ok

\* certificates of the input in order, and those that parse as anchors
CertBodies(pem) ==
    LET idx == SelectSeq([i \in 1..Len(pem) |-> i],
                         LAMBDA i : pem[i].label = CERT)
    IN [j \in 1..Len(idx) |-> pem[idx[j]].body]

NotAnAnchor == {Corrupt, Invalid}

ParsableCerts(pem) == SelectSeq(CertBodies(pem), LAMBDA b : b \notin NotAnAnchor)

\* a certificate that decodes but does not parse (the store ignores it)
HasIgnoredCert(pem) == \E i \in 1..Len(pem) : pem[i] = Sec(CERT, Invalid)

\* C6 as stated: add_certs_from_pem fails with CertificateParseError
\* whenever a certificate of the input is unparsable, succeeds only when
\* none is, and after that failure the store is the store before plus every
\* parsable certificate of the input.
C6_AsStated ==
    IsSome(pemOut) =>
        /\ HasIgnoredCert(pemIn) =>
               ~pemOut.v.ok /\ pemOut.v.err = CertificateParseError
        /\ pemOut.v.ok => ~HasIgnoredCert(pemIn)
        /\ (~pemOut.v.ok /\ pemOut.v.err = CertificateParseError) =>
               roots = pemOut.v.before \o ParsableCerts(pemIn)

\* C6 amended: when the PEM reader reads every section, add_certs_from_pem
\* fails with CertificateParseError iff a certificate of the input does not
\* parse, and the store is then (as on success) the store before plus every
\* parsable certificate of the input; when the reader fails on a section the
\* call fails with the reader's io::Error and the store is unchanged.
C6_PartialAddNoRollback ==
    IsSome(pemOut) =>
        IF UnreadableIdx(pemIn) # {}
        THEN /\ ~pemOut.v.ok /\ pemOut.v.err = IoError
             /\ roots = pemOut.v.before
        ELSE /\ roots = pemOut.v.before \o ParsableCerts(pemIn)
             /\ pemOut.v.ok <=> ~HasIgnoredCert(pemIn)
             /\ ~pemOut.v.ok => pemOut.v.err = CertificateParseError

\* a failed call that has added the well-formed certificate of its input
C6_Witness ==
    /\ IsSome(pemOut)
    /\ pemIn = <<Sec(CERT, Invalid), Sec(CERT, "A")>>
    /\ pemOut.v.err = CertificateParseError
    /\ pemOut.v.before = <<"W">>
    /\ roots = <<"W", "A">>

----------------------------------------------------------------------------
(* Properties of connect *)

ConnectDone == {t \in BagToSet(tasks) : t.side = "connect" /\ t.pc = "done"}
AcceptDone == {t \in BagToSet(tasks) : t.side = "accept" /\ t.pc = "done"}

\* the session reports a protocol and it is not h2
WrongProtocol(t) ==
    /\ t.hs.ok
    /\ IsSome(t.hs.value.alpn_protocol)
    /\ t.hs.value.alpn_protocol.v # "h2"

\* C1 as stated: a connect whose handshake succeeds with a negotiated
\* protocol that is present but is not h2 fails with H2NotNegotiated, for
\* both values of assume_http2.
C1_WrongProtocolRejected ==
    \A t \in ConnectDone :
        WrongProtocol(t) =>
            ~t.result.ok /\ t.result.err = H2NotNegotiated

\* C2: after a successful handshake connect succeeds when h2 was negotiated,
\* whatever assume_http2 is; when nothing was negotiated it succeeds if
\* assume_http2 is true and fails with H2NotNegotiated if it is false.
\* H2NotNegotiated is returned only after a successful handshake; a failed
\* handshake surfaces the handshake's own error.
C2_ProtocolCheckAfterHandshake ==
    \A t \in ConnectDone :
        LET assume_http2 == connNew.v.assume_http2 IN
        /\ (t.hs.ok /\ t.hs.value.alpn_protocol = Some("h2")) => t.result.ok
        /\ (t.hs.ok /\ t.hs.value.alpn_protocol = None) =>
               IF assume_http2 THEN t.result.ok
               ELSE ~t.result.ok /\ t.result.err = H2NotNegotiated
        /\ (~t.result.ok /\ t.result.err = H2NotNegotiated) => t.hs.ok
        /\ ~t.hs.ok => (~t.result.ok /\ t.result.err = t.hs.err)

\* a handshake without a negotiated protocol was accepted by a connector
\* built with assume_http2 = true
C2_Witness ==
    /\ IsSome(connNew) /\ connNew.v.assume_http2
    /\ \E t \in ConnectDone :
           t.hs.ok /\ t.hs.value.alpn_protocol = None /\ t.result.ok

----------------------------------------------------------------------------
(* Properties of TlsAcceptor::new and accept *)

Posture(verifier) ==
    IF verifier.kind = NoClientAuth THEN "Disabled"
    ELSE IF verifier.allow_unauthenticated THEN "OptionalVerify"
    ELSE "RequiredVerify"

AllRootFeatures == {TlsRoots, TlsWebpkiRoots}

\* C3: the verifier TlsAcceptor::new builds is decided by (client_ca_root,
\* client_auth_optional) alone: no client_ca_root gives Disabled for both
\* values of the flag, a client_ca_root with the flag true gives
\* OptionalVerify, with the flag false RequiredVerify; in the two verifying
\* postures the trust store holds the certificates of client_ca_root and
\* nothing else.
C3_PostureSelection ==
    (IsSome(accNew) /\ accNew.v.result.ok) =>
        LET v == accNew.v.result.value.inner.verifier
            ca == accNew.v.client_ca_root
        IN /\ acceptor = Some(accNew.v.result.value)
           /\ IF ~IsSome(ca) THEN Posture(v) = "Disabled"
              ELSE /\ Posture(v) = IF accNew.v.client_auth_optional
                                   THEN "OptionalVerify" ELSE "RequiredVerify"
                   /\ v.roots = CertBodies(ca.v)

\* an optional verifier over the two certificates of client_ca_root, in a
\* build that has both root features on
C3_Witness ==
    /\ features = AllRootFeatures
    /\ IsSome(accNew) /\ accNew.v.result.ok
    /\ accNew.v.client_auth_optional
    /\ accNew.v.client_ca_root = Some(<<Sec(CERT, "A"), Sec(CERT, "B")>>)
    /\ acceptor.v.inner.verifier.roots = <<"A", "B">>

\* the client's certificate chains to a certificate of client_ca_root
ValidClientCert(peer, ca) ==
    /\ IsSome(peer.cert)
    /\ InRoots(ParsableCerts(ca.v), peer.cert.v)

\* the client offers protocols and h2 is not among them
ProtocolMismatch(peer) == peer.offers # {} /\ ALPN_H2 \notin peer.offers

\* C4: for an acceptor built with a client_ca_root, a client that presents
\* no certificate is rejected by accept when client_auth_optional was false,
\* and the same client (one whose protocol offer does not itself end the
\* handshake) is accepted when it was true; under RequiredVerify no accept
\* returns a stream for a client without a valid certificate chain.
C4_RequiredVerifyRejects ==
    (IsSome(accNew) /\ IsSome(accNew.v.client_ca_root)) =>
        \A t \in AcceptDone :
            LET optional == accNew.v.client_auth_optional IN
            /\ (~IsSome(t.peer.cert) /\ ~optional) => ~t.result.ok
            /\ (~IsSome(t.peer.cert) /\ optional /\ ~ProtocolMismatch(t.peer)) =>
                   t.result.ok
            /\ (t.result.ok /\ ~optional) =>
                   ValidClientCert(t.peer, accNew.v.client_ca_root)

\* a client without a certificate was turned away by a required verifier
C4_Witness ==
    /\ IsSome(accNew) /\ IsSome(accNew.v.client_ca_root)
    /\ ~accNew.v.client_auth_optional
    /\ \E t \in AcceptDone :
           /\ ~IsSome(t.peer.cert)
           /\ ~t.result.ok /\ t.result.err = NoCertificatesPresented

\* C9: accept has no protocol check of its own: its Result is the Result of
\* the server-side handshake (the stream on success, the handshake's error
\* on failure), it never returns H2NotNegotiated, and no stream it returns
\* comes from a handshake with a protocol mismatch.
C9_AcceptIsTheHandshake ==
    \A t \in AcceptDone :
        /\ t.result.ok <=> t.hs.ok
        /\ t.result.ok => t.result.value = t.hs.value
        /\ ~t.result.ok => (t.result.err = t.hs.err /\ t.result.err # H2NotNegotiated)
        /\ t.result.ok => ~ProtocolMismatch(t.peer)

\* accept returned the stream of a handshake that negotiated no protocol
C9_Witness ==
    \E t \in AcceptDone :
        /\ t.peer.offers = {}
        /\ t.result.ok
        /\ t.result.value.alpn_protocol = None

----------------------------------------------------------------------------
(* The shared configuration under concurrent handshakes *)

Done(bag) == {t \in BagToSet(bag) : t.pc = "done"}

\* C7: no step of any connect or accept call changes the connector or the
\* acceptor once built (they stay what their constructor returned), a step
\* touches the record of one call only, and two calls of the same kind
\* against equal peers end in the same Result.
C7_Step ==
    /\ IsSome(connector) => connector' = connector
    /\ IsSome(acceptor) => acceptor' = acceptor
    /\ IsSome(connector') => connector'.v = connNew'.v.result.value
    /\ IsSome(acceptor') => acceptor'.v = accNew'.v.result.value
    /\ BagCardinality(tasks (-) tasks') <= 1
    /\ BagCardinality(tasks' (-) tasks) <= 1
    /\ \A t, u \in Done(tasks') :
           (t.side = u.side /\ t.peer = u.peer) => t.result = u.result

C7_SharedConfigUnchanged == [][C7_Step]_vars

\* a failed connect and a successful connect on the same connector
C7_Witness ==
    /\ IsSome(connector)
    /\ \E t, u \in ConnectDone : ~t.result.ok /\ u.result.ok

----------------------------------------------------------------------------
(* Properties of the constructors' error order *)

\* the steps of TlsConnector::new that fail on the arguments of the call
NativeFails(call) == TlsRoots \in features /\ ~call.native.ok

CaCertFails(ca) ==
    IsSome(ca) /\ (UnreadableIdx(ca.v) # {} \/ HasIgnoredCert(ca.v))

\* key sections the scan reaches
ReachableKeys(pem) ==
    {k \in KeyIdx(pem) : \A u \in UnreadableIdx(pem) : k < u}

IdentityPemFails(id) ==
    \/ UnreadableIdx(id.cert) # {}
    \/ ReachableKeys(id.key) = {}
    \/ id.key[Min(ReachableKeys(id.key))].body = Invalid

DomainFails(domain) == domain \notin ValidServerNames

\* the lines of the `?` of each step
AtIdentity == {57, 58}
AtClientCaRoot == {123, 134}
AtServerIdentity == {143, 144}

CertErrors == {IoError, CertificateParseError}
IdentityErrors == {IoError, PrivateKeyParseError, RustlsError}

====
